---- MODULE Spec2Model ----
(***************************************************************************)
(* Zavino Furniture point-of-sale: the local data layer (src/src/lib/db.ts) *)
(* behind its query cache (src/src/App.tsx), and the invoice editing        *)
(* session of the billing page (BillingPage).                               *)
(*                                                                          *)
(* Every awaited storage operation (length, getItem, setItem, iterate) is   *)
(* one step: its effect on the store and the continuation of the caller up  *)
(* to the next await.  Steps of different in-flight operations interleave   *)
(* freely.                                                                  *)
(***************************************************************************)
EXTENDS Integers, Sequences, FiniteSets, TLC

VARIABLES
    store,       \* productsStore / customersStore / invoicesStore: key -> record
    uuidCount,   \* per class, how many identifiers uuid() has generated
    query,       \* the query cache: per query key its data, timestamp and flag
    fetch,       \* per query key, the queryFn run in flight (pc, seeds left to write)
    page,        \* the page on screen: its component holds the query observers
    mutations,   \* the mutations in flight
    now,         \* Date.now(), in seconds
    nWrites,     \* how many mutations have been started
    written,     \* per class, key -> the value of the last completed write
    lines,       \* BillingPage: the lines of the invoice being composed
    applyGst,    \* BillingPage: the GST toggle
    customerId,  \* BillingPage: the selected customer (NoCustomer: none)
    lineCount,   \* how many line identifiers crypto.randomUUID() has generated
    nEdits,      \* how many line edits the session has made
    dashboard,   \* DashboardPage: the value of its useMemo (NoDashboard: unmounted)
    zombies,     \* per query key, the cancelled queryFn runs that still go on
    rejected,    \* how many mutateAsync calls have rejected
    raced        \* which kinds of operations have overlapped ("writes", "seeds")

\* The state of the BillingPage component and its counters.
session == <<lines, applyGst, customerId, lineCount, nEdits>>

\* The cancelled runs, the rejections and the record of overlaps.
aux == <<zombies, rejected, raced>>

vars == <<store, uuidCount, query, fetch, page, mutations, now, nWrites, written,
          lines, applyGst, customerId, lineCount, nEdits, dashboard,
          zombies, rejected, raced>>

(***************************************************************************)
(* Bounds                                                                   *)
(***************************************************************************)
MaxWrites == 2       \* mutations started in one behaviour
MaxTicks == 2        \* clock ticks in one behaviour
MaxEdits == 4        \* line edits of the billing session in one behaviour
MaxMixed == 2        \* invoices of a stored list that mixes statuses and days

(***************************************************************************)
(* Program constants                                                        *)
(***************************************************************************)
\* Time is counted in seconds: a timestamp of the code (milliseconds) over
\* 1000. staleTime: 1000 * 60
staleTime == (1000 * 60) \div 1000
TickSeconds == (2 * staleTime) \div 3

Classes == {"products", "customers", "invoices"}

\* customerId === '': no customer selected.
NoCustomer == 0

\* The starter records of seedProductsIfEmpty, without their identifiers.
ProductSeed ==
    << [name |-> "Verona Leather Sofa", sku |-> "SOFA-VERONA-3S", price |-> 89999,
        cost |-> 55000, stockQty |-> 4,
        imageUrl |-> "https://images.pexels.com/photos/1866149/pexels-photo-1866149.jpeg"],
       [name |-> "Oslo Fabric Sectional", sku |-> "SOFA-OSLO-L", price |-> 109999,
        cost |-> 70000, stockQty |-> 2,
        imageUrl |-> "https://images.pexels.com/photos/1571453/pexels-photo-1571453.jpeg"],
       [name |-> "Milan Dining Table (6-Seater)", sku |-> "TABLE-MILAN-6", price |-> 45999,
        cost |-> 28000, stockQty |-> 6,
        imageUrl |-> "https://images.pexels.com/photos/37347/office-freelancer-computer-business-37347.jpeg"],
       [name |-> "Zurich Coffee Table", sku |-> "TABLE-ZURICH-CT", price |-> 18999,
        cost |-> 9000, stockQty |-> 10,
        imageUrl |-> "https://images.pexels.com/photos/1643383/pexels-photo-1643383.jpeg"],
       [name |-> "Vienna Accent Chair", sku |-> "CHAIR-VIENNA-AC", price |-> 24999,
        cost |-> 12000, stockQty |-> 8,
        imageUrl |-> "https://images.pexels.com/photos/1866140/pexels-photo-1866140.jpeg"] >>

\* The starter records of seedCustomersIfEmpty, without their identifiers.
CustomerSeed ==
    << [name |-> "Arjun Mehta", phone |-> "+91 98765 43210",
        address |-> "Bandra West, Mumbai, Maharashtra"],
       [name |-> "Priya Sharma", phone |-> "+91 91234 56789",
        address |-> "HSR Layout, Bengaluru, Karnataka"],
       [name |-> "Kavita & Co Interiors", phone |-> "+91 99887 66554",
        address |-> "Koregaon Park, Pune, Maharashtra"] >>

\* The invoices query has no seed: its queryFn is getAll alone.
SeedOf(c) ==
    IF c = "products" THEN ProductSeed
    ELSE IF c = "customers" THEN CustomerSeed
    ELSE << >>

Seeded(c) == c \in {"products", "customers"}

\* The routes of ZavinoLayout and the hooks each page component calls; before
\* the PIN is accepted no page is rendered.
Pages == {"dashboard", "inventory", "billing", "customers", "reports"}

Queries(p) ==
    IF p = "dashboard" THEN {"products", "invoices"}
    ELSE IF p = "inventory" THEN {"products"}
    ELSE IF p = "billing" THEN {"products", "customers", "invoices"}
    ELSE IF p = "customers" THEN {"customers", "invoices"}
    ELSE {}

\* Whether the query of class c has a mounted observer.
Active(c) == c \in Queries(page)

(***************************************************************************)
(* The document store (localforage instances)                               *)
(***************************************************************************)
EmptyStore == << >>

\* store.setItem(key, value): writes or overwrites the record under key.
setItemFirstWins(s, k, v) ==
    [x \in DOMAIN s \cup {k} |-> IF x \in DOMAIN s THEN s[x] ELSE v]

setItemUnderNewKey(s, k, v) ==
    LET n == Cardinality(DOMAIN s) + 1
    IN  [x \in DOMAIN s \cup {n} |-> IF x = n THEN v ELSE s[x]]

setItem(s, k, v) ==
    [x \in DOMAIN s \cup {k} |-> IF x = k THEN v ELSE s[x]]

\* store.removeItem(key)
removeItem(s, k) == [x \in DOMAIN s \ {k} |-> s[x]]

\* store.length()
lengthAlwaysZero(s) == 0

length(s) == Cardinality(DOMAIN s)

RECURSIVE KeysInOrder(_)
KeysInOrder(K) ==
    IF K = {} THEN << >>
    ELSE LET m == CHOOSE x \in K : \A y \in K : x <= y
         IN  <<m>> \o KeysInOrder(K \ {m})

\* getAll(store): iterate pushes every value, in the store's key order.
getAll(s) ==
    LET ks == KeysInOrder(DOMAIN s)
    IN  [i \in 1..Len(ks) |-> s[ks[i]]]

\* { ...fields, id }
WithId(fields, id) ==
    [f \in DOMAIN fields \cup {"id"} |-> IF f = "id" THEN id ELSE fields[f]]

\* The seed array: each starter record with the next identifiers of uuid().
SeedRecordsUnderFixedIds(c, n) ==
    [i \in DOMAIN SeedOf(c) |-> WithId(SeedOf(c)[i], i)]

SeedRecords(c, n) ==
    [i \in 1..Len(SeedOf(c)) |-> WithId(SeedOf(c)[i], n + i)]

(***************************************************************************)
(* DashboardPage: the aggregates of its useMemo                             *)
(***************************************************************************)
\* A date is the number of seconds since 1970-01-01T00:00Z that its ISO
\* string (toISOString) denotes; ISO strings of four-digit years compare as
\* their dates do.
SecondsPerDay == 24 * 60 * 60

\* toISOString().slice(0, 10): the UTC day, as the number of the day.
dayKey(date) == date \div SecondsPerDay

\* The civil date (year, month) of a day number, in the proleptic Gregorian
\* calendar.
civilMonth(day) ==
    LET z == day + 719468
        era == z \div 146097
        doe == z - era * 146097
        yoe == (doe - doe \div 1460 + doe \div 36524 - doe \div 146096) \div 365
        doy == doe - (365 * yoe + yoe \div 4 - yoe \div 100)
        mp == (5 * doy + 2) \div 153
        m == IF mp < 10 THEN mp + 3 ELSE mp - 9
        y == yoe + era * 400 + (IF m <= 2 THEN 1 ELSE 0)
    IN  <<y, m>>

\* `${getFullYear()}-${String(getMonth() + 1).padStart(2, '0')}`, as the pair
\* <<year, month>>; the time zone of the browser is taken to be UTC.
monthKey(date) == civilMonth(dayKey(date))

\* a > b on two such keys: the order of the strings.
keyGreater(a, b) == a[1] > b[1] \/ (a[1] = b[1] /\ a[2] > b[2])

\* products.filter((p) => p.stockQty < 5).length
lowStock(products) == Cardinality({i \in DOMAIN products : products[i].stockQty < 5})

\* The forEach over the invoices: todaySalesSum
isTodaySaleAnyStatus(inv, todayKey) == dayKey(inv.date) = todayKey

isTodaySale(inv, todayKey) == dayKey(inv.date) = todayKey /\ inv.status = "paid"

RECURSIVE todaySalesSum(_, _)
todaySalesSum(invoices, todayKey) ==
    IF invoices = << >> THEN 0
    ELSE (IF isTodaySale(Head(invoices), todayKey) THEN Head(invoices).total ELSE 0)
            + todaySalesSum(Tail(invoices), todayKey)

\* The forEach over the invoices: pendingSum
isPendingUnpaidOnly(inv) == inv.status = "unpaid"

isPending(inv) == inv.status = "unpaid" \/ inv.status = "overdue"

RECURSIVE pendingSum(_)
pendingSum(invoices) ==
    IF invoices = << >> THEN 0
    ELSE (IF isPending(Head(invoices)) THEN Head(invoices).total ELSE 0)
            + pendingSum(Tail(invoices))

\* monthlyMap.set(monthKey, (monthlyMap.get(monthKey) ?? 0) + inv.total): the
\* Map as the list of its entries in insertion order.
mapSet(map, key, amount) ==
    IF \E i \in DOMAIN map : map[i].key = key
    THEN [i \in DOMAIN map |->
            IF map[i].key = key THEN [map[i] EXCEPT !.total = @ + amount]
            ELSE map[i]]
    ELSE Append(map, [key |-> key, total |-> amount])

RECURSIVE monthlyMap(_, _)
monthlyMap(invoices, map) ==
    IF invoices = << >> THEN map
    ELSE monthlyMap(Tail(invoices),
                    mapSet(map, monthKey(Head(invoices).date), Head(invoices).total))

\* .sort(([a], [b]) => (a > b ? 1 : -1)) on entries, whose keys differ: the
\* entries in ascending order of key.
RECURSIVE sortEntries(_)
sortEntries(entries) ==
    IF entries = << >> THEN << >>
    ELSE LET i == CHOOSE i \in DOMAIN entries :
                    \A j \in DOMAIN entries : ~keyGreater(entries[i].key, entries[j].key)
         IN  <<entries[i]>>
                \o sortEntries(SubSeq(entries, 1, i - 1)
                                 \o SubSeq(entries, i + 1, Len(entries)))

\* .slice(-6) and .slice(0, 5)
sliceFirst(seq, n) == SubSeq(seq, 1, IF Len(seq) < n THEN Len(seq) ELSE n)

sliceLast(seq, n) ==
    SubSeq(seq, IF Len(seq) < n THEN 1 ELSE Len(seq) - n + 1, Len(seq))

\* An amount in paise shown in rupees (amount / 100): rupees and hundredths.
rupees(amount) == [whole |-> amount \div 100, hundredths |-> amount % 100]

\* { month: `${month}/${year.slice(2)}`, total: total / 100 }
chartEntry(entry) ==
    [month |-> <<entry.key[2], entry.key[1] % 100>>, total |-> rupees(entry.total)]

monthlyDataUntrimmed(invoices) ==
    LET sorted == sortEntries(monthlyMap(invoices, << >>))
    IN  [i \in DOMAIN sorted |-> chartEntry(sorted[i])]

monthlyData(invoices) ==
    LET sorted == sliceLast(sortEntries(monthlyMap(invoices, << >>)), 6)
    IN  [i \in DOMAIN sorted |-> chartEntry(sorted[i])]

\* [...invoices].sort((a, b) => (a.date < b.date ? 1 : -1)): the comparator
\* puts a before b unless a.date < b.date, and answers so for equal dates in
\* either order, so invoices of equal date come out in an order the engine
\* picks: every order the comparator's answers allow is an outcome.
mayPrecedeAscending(a, b) == ~(a.date > b.date)

mayPrecede(a, b) == ~(a.date < b.date)

RECURSIVE sortOutcomes(_, _)
sortOutcomes(invoices, S) ==
    IF S = {} THEN {<< >>}
    ELSE UNION { { <<invoices[i]>> \o rest : rest \in sortOutcomes(invoices, S \ {i}) } :
                 i \in {i \in S : \A j \in S : mayPrecede(invoices[i], invoices[j])} }

NoDashboard == [mounted |-> FALSE]

\* The values the useMemo of DashboardPage can return.
dashboardOutcomes(products, invoices, todayKey) ==
    { [mounted |-> TRUE,
       todaySalesSum |-> todaySalesSum(invoices, todayKey),
       pendingSum |-> pendingSum(invoices),
       todaySales |-> rupees(todaySalesSum(invoices, todayKey)),
       pendingAmount |-> rupees(pendingSum(invoices)),
       lowStockCount |-> lowStock(products),
       recentInvoices |-> sliceFirst(recent, 5),
       monthlySales |-> monthlyData(invoices)] :
      recent \in sortOutcomes(invoices, DOMAIN invoices) }

\* The render of the page routed to: DashboardPage computes its memo from the
\* listings of the cache (data ?? []) and the day of the clock.
DashboardRender ==
    dashboard' \in
        IF page' = "dashboard"
        THEN dashboardOutcomes(query'["products"].data, query'["invoices"].data,
                               dayKey(now'))
        ELSE {NoDashboard}

(***************************************************************************)
(* The query cache                                                          *)
(***************************************************************************)
\* status tells whether the query holds data; error, whether its last run was
\* given up.
NoQuery == [status |-> "pending", data |-> << >>, dataUpdatedAt |-> 0,
            isInvalidated |-> FALSE, error |-> FALSE]

IdleFetch == [pc |-> "idle", pending |-> << >>, failureCount |-> 0]

Fetching(c) == fetch[c].pc # "idle"

\* A query is stale when it holds no data, is invalidated, or its data is at
\* least staleTime old.
IsStaleIgnoresAge(c) ==
    \/ query[c].status = "pending"
    \/ query[c].isInvalidated

IsStale(c) ==
    \/ query[c].status = "pending"
    \/ query[c].isInvalidated
    \/ now >= query[c].dataUpdatedAt + staleTime

\* The first await of each queryFn.
FirstPcSeedsAll(c) == "length"

FirstPc(c) == IF Seeded(c) THEN "length" ELSE "iterate"

StartedFetch(c) == [pc |-> FirstPc(c), pending |-> << >>, failureCount |-> 0]

\* query.fetch() of an observer that mounts or of a refetch: a run already in
\* flight is joined, except that a refetch of a query that holds data cancels
\* it and starts over.
FetchAfter(c, cancelRefetch) ==
    IF Fetching(c) /\ ~(cancelRefetch /\ query[c].status = "success")
    THEN fetch[c]
    ELSE StartedFetch(c)

\* queryClient.invalidateQueries({ queryKey: [c] }): flags the query and
\* refetches it when it has a mounted observer.
InvalidatedQueryKeepsFlag(c) == query[c]

InvalidatedQuery(c) == [query[c] EXCEPT !.isInvalidated = TRUE]

\* The run a refetch cancels is dropped by the cache, but its queryFn takes no
\* abort signal and goes on: it is kept while it may still write (a run that
\* has only its getAll left reads and is ignored).
Cancelled(c) == Active(c) /\ Fetching(c) /\ query[c].status = "success"

invalidateQueriesOfAllKeys(c) ==
    /\ query' = [c2 \in Classes |-> InvalidatedQuery(c2)]
    /\ fetch' = [c2 \in Classes |-> IF Active(c2) THEN FetchAfter(c2, TRUE)
                                    ELSE fetch[c2]]
    /\ zombies' = [c2 \in Classes |->
                     IF Cancelled(c2) /\ fetch[c2].pc \in {"length", "seed"}
                     THEN Append(zombies[c2], fetch[c2])
                     ELSE zombies[c2]]

invalidateQueries(c) ==
    /\ query' = [query EXCEPT ![c] = InvalidatedQuery(c)]
    /\ fetch' = [fetch EXCEPT ![c] = IF Active(c) THEN FetchAfter(c, TRUE) ELSE @]
    /\ zombies' = [zombies EXCEPT ![c] =
                     IF Cancelled(c) /\ fetch[c].pc \in {"length", "seed"}
                     THEN Append(@, fetch[c])
                     ELSE @]

(***************************************************************************)
(* Reads: useQuery                                                          *)
(***************************************************************************)
\* A page is routed to: its component mounts with its initial state and each
\* of its useQuery observers issues the read request of its class.
Navigate(p) ==
    /\ p # page
    /\ page' = p
    /\ fetch' = [c \in Classes |->
                   IF c \in Queries(p) /\ IsStale(c) THEN FetchAfter(c, FALSE)
                   ELSE fetch[c]]
    /\ lines' = << >>
    /\ applyGst' = TRUE
    /\ customerId' = NoCustomer
    /\ UNCHANGED <<store, uuidCount, query, mutations, now, nWrites, written,
                   lineCount, nEdits>>
    /\ UNCHANGED aux
    /\ DashboardRender

\* seedXIfEmpty: const count = await store.length(); if (count > 0) return;
\* otherwise the seed array is built (uuid() per record) and its writes issued.
\* Whether a run of the class other than the one that counts now has counted
\* an empty store and not yet written its seed.
SeedPending(c, others) == \E j \in DOMAIN others : others[j].pc = "seed"

FetchLength(c) ==
    /\ fetch[c].pc = "length"
    /\ IF length(store[c]) > 0
       THEN /\ fetch' = [fetch EXCEPT ![c].pc = "iterate"]
            /\ UNCHANGED <<uuidCount, raced>>
       ELSE /\ fetch' = [fetch EXCEPT ![c].pc = "seed",
                                      ![c].pending = SeedRecords(c, uuidCount[c])]
            /\ uuidCount' = [uuidCount EXCEPT ![c] = @ + Len(SeedOf(c))]
            /\ raced' = IF SeedPending(c, zombies[c]) THEN raced \cup {"seeds"}
                        ELSE raced
    /\ UNCHANGED <<store, query, page, mutations, now, nWrites, written>>
    /\ UNCHANGED session
    /\ UNCHANGED dashboard
    /\ UNCHANGED <<zombies, rejected>>

\* store.setItem of every record of a list, in the list's order.
RECURSIVE setItems(_, _)
setItems(s, recs) ==
    IF recs = << >> THEN s
    ELSE setItems(setItem(s, Head(recs).id, Head(recs)), Tail(recs))

\* await Promise.all(seed.map((p) => store.setItem(p.id, p))): the writes are
\* issued together and land in order; no operation of the class can tell an
\* intermediate store from the store before or after them (the keys are fresh).
FetchSeedWrite(c) ==
    /\ fetch[c].pc = "seed"
    /\ store' = [store EXCEPT ![c] = setItems(@, fetch[c].pending)]
    /\ fetch' = [fetch EXCEPT ![c].pc = "iterate", ![c].pending = << >>]
    /\ UNCHANGED <<uuidCount, query, page, mutations, now, nWrites, written>>
    /\ UNCHANGED session
    /\ UNCHANGED dashboard
    /\ UNCHANGED aux

\* return getAll(store): the run ends and the cache entry takes its result; a
\* mounted DashboardPage that uses the entry renders and recomputes its memo.
FetchedQueryKeepsData(c) ==
    [status |-> "success", data |-> query[c].data, dataUpdatedAt |-> now,
     isInvalidated |-> FALSE, error |-> FALSE]

FetchedQuery(c) ==
    [status |-> "success", data |-> getAll(store[c]), dataUpdatedAt |-> now,
     isInvalidated |-> FALSE, error |-> FALSE]

FetchIterate(c) ==
    /\ fetch[c].pc = "iterate"
    /\ query' = [query EXCEPT ![c] = FetchedQuery(c)]
    /\ fetch' = [fetch EXCEPT ![c] = IdleFetch]
    /\ UNCHANGED <<store, uuidCount, page, mutations, now, nWrites, written>>
    /\ UNCHANGED session
    /\ UNCHANGED aux
    /\ IF page = "dashboard" /\ c \in {"products", "invoices"}
       THEN DashboardRender
       ELSE UNCHANGED dashboard

\* A cancelled run goes on: its count of the store,
RemoveAt(seq, i) == SubSeq(seq, 1, i - 1) \o SubSeq(seq, i + 1, Len(seq))

ZombieLength(c) ==
    \E i \in DOMAIN zombies[c] :
        /\ zombies[c][i].pc = "length"
        /\ IF length(store[c]) > 0
           THEN /\ zombies' = [zombies EXCEPT ![c] = RemoveAt(@, i)]
                /\ UNCHANGED <<uuidCount, raced>>
           ELSE /\ zombies' = [zombies EXCEPT ![c][i].pc = "seed",
                                 ![c][i].pending = SeedRecords(c, uuidCount[c])]
                /\ uuidCount' = [uuidCount EXCEPT ![c] = @ + Len(SeedOf(c))]
                /\ raced' = IF fetch[c].pc = "seed"
                                 \/ SeedPending(c, RemoveAt(zombies[c], i))
                            THEN raced \cup {"seeds"}
                            ELSE raced
        /\ UNCHANGED <<store, query, fetch, page, mutations, now, nWrites, written,
                       rejected>>
        /\ UNCHANGED session
        /\ UNCHANGED dashboard

\* and the writes of its seed; the listing it reads afterwards is ignored.
ZombieSeedWrite(c) ==
    \E i \in DOMAIN zombies[c] :
        /\ zombies[c][i].pc = "seed"
        /\ store' = [store EXCEPT ![c] = setItems(@, zombies[c][i].pending)]
        /\ zombies' = [zombies EXCEPT ![c] = RemoveAt(@, i)]
        /\ UNCHANGED <<uuidCount, query, fetch, page, mutations, now, nWrites,
                       written, rejected, raced>>
        /\ UNCHANGED session
        /\ UNCHANGED dashboard

\* The QueryClient of App.tsx sets staleTime and refetchOnWindowFocus only:
\* queries keep the library's retry of three.
retry == 3

\* The awaited storage operation of a run rejects, and the queryFn with it. Of
\* the writes of a seed (Promise.all) one rejects and the others land. The run
\* is started again until it has failed more than retry times; then the query
\* is left in error. Storage fails for one class at a time.
FetchFails(c) ==
    /\ Fetching(c)
    /\ \A c2 \in Classes \ {c} : fetch[c2].failureCount = 0
    /\ \E landed \in (IF fetch[c].pc = "seed"
                       THEN {RemoveAt(fetch[c].pending, i) :
                                i \in DOMAIN fetch[c].pending}
                       ELSE {<< >>}) :
          store' = [store EXCEPT ![c] = setItems(@, landed)]
    /\ IF fetch[c].failureCount < retry
       THEN /\ fetch' = [fetch EXCEPT ![c] =
                           [StartedFetch(c) EXCEPT
                              !.failureCount = fetch[c].failureCount + 1]]
            /\ UNCHANGED query
       ELSE /\ fetch' = [fetch EXCEPT ![c] = IdleFetch]
            /\ query' = [query EXCEPT ![c].error = TRUE]
    /\ UNCHANGED <<uuidCount, page, mutations, now, nWrites, written>>
    /\ UNCHANGED session
    /\ UNCHANGED dashboard
    /\ UNCHANGED aux

(***************************************************************************)
(* Writes: useMutation                                                      *)
(***************************************************************************)
\* const id = input.id ?? uuid()
HasId(input) == "id" \in DOMAIN input

IdForAlwaysFresh(c, input) == uuidCount[c] + 1

IdForFirst(c, input) == IF HasId(input) THEN input.id ELSE 1

IdFor(c, input) == IF HasId(input) THEN input.id ELSE uuidCount[c] + 1

\* A mutation whose mutationFn has issued its first storage operation.
StartMutation(kind, c, input, pc) ==
    /\ Active(c)
    /\ nWrites < MaxWrites
    /\ LET id == IdFor(c, input)
           m == [kind |-> kind, cls |-> c, key |-> id, input |-> input,
                 value |-> WithId(input, id), pc |-> pc]
       IN  /\ m \notin mutations
           /\ mutations' = mutations \cup {m}
    /\ uuidCount' = [uuidCount EXCEPT ![c] = IF HasId(input) THEN @ ELSE @ + 1]
    /\ nWrites' = nWrites + 1
    /\ UNCHANGED <<store, query, fetch, page, now, written>>
    /\ UNCHANGED session
    /\ UNCHANGED dashboard
    /\ UNCHANGED aux

\* The inputs of the checks.
NewProduct == [name |-> "Nordic Bookshelf", sku |-> "SHELF-NORDIC", price |-> 25,
               cost |-> 10, stockQty |-> 1, imageUrl |-> ""]

TargetIds == {1}
StockInputs == {0, 9}

\* An identifier a caller passes is one of the listing it holds.
Listed(c, k) == \E i \in DOMAIN query[c].data : query[c].data[i].id = k

AddProductInputs ==
    {NewProduct}
        \cup {WithId(NewProduct, k) : k \in {t \in TargetIds : Listed("products", t)}}

\* The stock adjustment submits a listed record with a new stockQty.
UpdateProductInputs ==
    { [query["products"].data[i] EXCEPT !.stockQty = q] :
        i \in {j \in DOMAIN query["products"].data :
                 query["products"].data[j].id \in TargetIds},
        q \in StockInputs }

\* InventoryPage.onSubmit and the stock adjustment of InventoryPage.
addProduct(input) ==
    /\ page = "inventory"
    /\ StartMutation("addProduct", "products", input, "setItem")

updateProduct(product) ==
    /\ page = "inventory"
    /\ StartMutation("updateProduct", "products", product, "setItem")

\* An identifier no uuid() call has produced.
UnknownId == 0

\* The form of CustomersPage submitted unchanged and with a new name, and a
\* partial record.
CustomerPatches ==
    { CustomerSeed[1],
      [name |-> "Arjun M.", phone |-> "+91 98765 43210",
       address |-> "Bandra West, Mumbai, Maharashtra"],
      [name |-> "Meera Nair"] }

UpsertCustomerInputs ==
    {[name |-> "Meera Nair"]}
        \cup {WithId(p, k) : p \in CustomerPatches,
                             k \in {t \in TargetIds : Listed("customers", t)}}
        \cup {WithId([name |-> "Meera Nair"], UnknownId)}

\* CustomersPage.onSubmitCustomer
upsertCustomer(input) ==
    /\ page = "customers"
    /\ StartMutation("upsertCustomer", "customers", input, "getItem")

\* const existing = (await customersStore.getItem(id)) ?? { id, name: '', ... };
\* const customer = { ...existing, ...input, id };
BlankCustomer(id) == [id |-> id, name |-> "", phone |-> "", address |-> ""]

CustomerFields == {"id", "name", "phone", "address"}

MergeCustomerExistingWins(existing, input, id) ==
    [f \in CustomerFields |->
        IF f = "id" THEN id
        ELSE IF f \in DOMAIN existing THEN existing[f]
        ELSE input[f]]

MergeCustomer(existing, input, id) ==
    [f \in CustomerFields |->
        IF f = "id" THEN id
        ELSE IF f \in DOMAIN input THEN input[f]
        ELSE existing[f]]

UpsertGetItem(m) ==
    /\ m \in mutations
    /\ m.pc = "getItem"
    /\ LET existing == IF m.key \in DOMAIN store[m.cls] THEN store[m.cls][m.key]
                       ELSE BlankCustomer(m.key)
           customer == MergeCustomer(existing, m.input, m.key)
       IN  mutations' = (mutations \ {m})
                           \cup {[m EXCEPT !.value = customer, !.pc = "setItem"]}
    /\ UNCHANGED <<store, uuidCount, query, fetch, page, now, nWrites, written>>
    /\ UNCHANGED session
    /\ UNCHANGED dashboard
    /\ UNCHANGED aux

SampleItem == [id |-> 1, productId |-> 1, name |-> "Verona Leather Sofa",
               quantity |-> 1, price |-> 89999, total |-> 89999]

SaveInvoiceInputs ==
    { [invoiceNumber |-> [prefix |-> "ZAVINO", today |-> 0, seq |-> 1],
       customerId |-> 1, date |-> 0, status |-> "unpaid",
       subtotal |-> 89999, tax |-> 16200, total |-> 106199,
       items |-> <<SampleItem>>] }

\* BillingPage.handleSaveInvoice, with the draft taken from a fixed list.
saveInvoice(input) ==
    /\ page = "billing"
    /\ StartMutation("saveInvoice", "invoices", input, "setItem")

\* await store.setItem(id, record); return record; then onSuccess invalidates
\* the query of the class, and mutateAsync resolves: handleSaveInvoice goes on
\* to setLines([]) and setCustomerId('').
MutationSetItem(m) ==
    /\ m \in mutations
    /\ m.pc = "setItem"
    /\ store' = [store EXCEPT ![m.cls] = setItem(@, m.key, m.value)]
    /\ written' = [written EXCEPT ![m.cls] = (m.key :> m.value) @@ @]
    /\ mutations' = mutations \ {m}
    /\ invalidateQueries(m.cls)
    /\ IF m.kind = "saveInvoice"
       THEN lines' = << >> /\ customerId' = NoCustomer
       ELSE UNCHANGED <<lines, customerId>>
    /\ raced' = IF \E m2 \in mutations \ {m} : m2.cls = m.cls /\ m2.key = m.key
                THEN raced \cup {"writes"}
                ELSE raced
    /\ UNCHANGED <<uuidCount, page, now, nWrites, applyGst, lineCount, nEdits,
                   dashboard, rejected>>

\* useProducts.deleteProduct, which no page calls: a component that uses the
\* hook deletes a listed product.
DeleteProductInputs ==
    {[id |-> k] : k \in {t \in TargetIds : Listed("products", t)}}

deleteProduct(input) ==
    StartMutation("deleteProduct", "products", input, "removeItem")

\* await productsStore.removeItem(id); return id; then onSuccess invalidates.
MutationRemoveItem(m) ==
    /\ m \in mutations
    /\ m.pc = "removeItem"
    /\ store' = [store EXCEPT ![m.cls] = removeItem(@, m.key)]
    /\ written' = [written EXCEPT ![m.cls] = removeItem(@, m.key)]
    /\ mutations' = mutations \ {m}
    /\ invalidateQueries(m.cls)
    /\ raced' = IF \E m2 \in mutations \ {m} : m2.cls = m.cls /\ m2.key = m.key
                THEN raced \cup {"writes"}
                ELSE raced
    /\ UNCHANGED <<uuidCount, page, now, nWrites, dashboard, rejected>>
    /\ UNCHANGED session

\* The awaited storage operation of a mutationFn rejects: the mutation ends in
\* error without onSuccess (mutations are not retried), mutateAsync rejects,
\* and handleSaveInvoice ends at its await.
MutationFailsClearingDraft(m) ==
    /\ m \in mutations
    /\ mutations' = mutations \ {m}
    /\ rejected' = rejected + 1
    /\ lines' = << >>
    /\ customerId' = NoCustomer
    /\ UNCHANGED <<store, uuidCount, query, fetch, page, now, nWrites, written,
                   applyGst, lineCount, nEdits, dashboard, zombies, raced>>

MutationFails(m) ==
    /\ m \in mutations
    /\ mutations' = mutations \ {m}
    /\ rejected' = rejected + 1
    /\ UNCHANGED <<store, uuidCount, query, fetch, page, now, nWrites, written,
                   dashboard, zombies, raced>>
    /\ UNCHANGED session

(***************************************************************************)
(* BillingPage: the invoice editing session                                 *)
(***************************************************************************)
\* Every variable but the component state of BillingPage.
cache == <<store, uuidCount, query, fetch, page, mutations, now, nWrites, written,
           zombies, rejected, raced>>

\* Math.round of the quotient n / d, d > 0: the nearest integer, a half going
\* up (towards +Infinity).
MathRoundDown(n, d) == n \div d

MathRound(n, d) == (2 * n + d) \div (2 * d)

MathMax(a, b) == IF a >= b THEN a ELSE b

\* const gstRate = 0.18, as a percentage.
gstRatePercent == 18

\* total: Math.max(0, Math.round(qty * price))
lineTotal(qty, price) == MathMax(0, MathRound(qty * price, 1))

\* lines.reduce((sum, l) => sum + l.total, 0)
RECURSIVE reduceTotals(_, _)
reduceTotals(ls, sum) ==
    IF ls = << >> THEN sum ELSE reduceTotals(Tail(ls), sum + Head(ls).total)

subtotalOfFirst(ls) == IF ls = << >> THEN 0 ELSE ls[1].total

subtotal(ls) == reduceTotals(ls, 0)

tax(ls, gst) == IF gst THEN MathRound(subtotal(ls) * gstRatePercent, 100) ELSE 0

total(ls, gst) == subtotal(ls) + tax(ls, gst)

\* const count = invoicesQuery.data?.length ?? 0; ZAVINO-<today>-<count + 1>
invoiceNumber ==
    [prefix |-> "ZAVINO", today |-> dayKey(now),
     seq |-> (IF query["invoices"].status = "success"
              THEN Len(query["invoices"].data) ELSE 0) + 1]

\* What the session picks and types.
PickIds == {1, 2}
CustomerPickIds == {1}
QtyInputs == {-1, 0, 3}
PriceInputs == {-1, 25}

\* lines.find((l) => l.productId === productId): the index of the first line
\* of the product, 0 when there is none.
findLineNever(ls, productId) == 0

findLine(ls, productId) ==
    IF \E i \in DOMAIN ls : ls[i].productId = productId
    THEN CHOOSE i \in DOMAIN ls :
            /\ ls[i].productId = productId
            /\ \A j \in DOMAIN ls : ls[j].productId = productId => i <= j
    ELSE 0

\* The updater of updateLineQty: prev.map(...)
withQty(prev, lineId, qty) ==
    [i \in DOMAIN prev |->
        IF prev[i].id = lineId
        THEN [prev[i] EXCEPT !.quantity = qty, !.total = lineTotal(qty, prev[i].price)]
        ELSE prev[i]]

\* The updater of updateLinePrice: prev.map(...)
withPrice(prev, lineId, price) ==
    [i \in DOMAIN prev |->
        IF prev[i].id = lineId
        THEN [prev[i] EXCEPT !.price = price,
                             !.total = lineTotal(prev[i].quantity, price)]
        ELSE prev[i]]

\* One edit of the session: the state of the component after it, re-rendered.
Edit(newLines, newGst, newCount) ==
    /\ page = "billing"
    /\ nEdits < MaxEdits
    /\ nEdits' = nEdits + 1
    /\ lines' = newLines
    /\ applyGst' = newGst
    /\ lineCount' = newCount
    /\ UNCHANGED customerId
    /\ UNCHANGED cache
    /\ UNCHANGED dashboard

\* addProductToInvoice(productId), then the render its setLines schedules.
addProductToInvoice(productId) ==
    /\ query["products"].status = "success"
    /\ \E i \in DOMAIN query["products"].data :
        /\ query["products"].data[i].id = productId
        /\ \A j \in DOMAIN query["products"].data :
              query["products"].data[j].id = productId => i <= j
        /\ LET product == query["products"].data[i]
               existing == findLine(lines, productId)
               line == [id |-> lineCount + 1, productId |-> product.id,
                        name |-> product.name, quantity |-> 1,
                        price |-> product.price, total |-> product.price]
           IN  IF existing # 0
               THEN Edit(withQty(lines, lines[existing].id,
                                 lines[existing].quantity + 1),
                         applyGst, lineCount)
               ELSE Edit(Append(lines, line), applyGst, lineCount + 1)

\* The quantity input of a line: updateLineQty(line.id, Number(value) || 0)
updateLineQty(lineId, qty) == Edit(withQty(lines, lineId, qty), applyGst, lineCount)

\* The price input of a line: updateLinePrice(line.id, Number(value) || 0)
updateLinePrice(lineId, price) ==
    Edit(withPrice(lines, lineId, price), applyGst, lineCount)

\* prev.filter((l) => l.id !== lineId)
removeLine(lineId) ==
    Edit(SelectSeq(lines, LAMBDA l : l.id # lineId), applyGst, lineCount)

\* The GST checkbox: setApplyGst(e.target.checked)
setApplyGst(checked) == Edit(lines, checked, lineCount)

\* The customer select: an option of the customers listing, or the empty one.
setCustomerId(id) ==
    /\ page = "billing"
    /\ id # customerId
    /\ id = NoCustomer \/ Listed("customers", id)
    /\ customerId' = id
    /\ UNCHANGED <<lines, applyGst, lineCount, nEdits>>
    /\ UNCHANGED cache
    /\ UNCHANGED dashboard

\* The invoice handleSaveInvoice builds from the values of the last render.
DraftAsPaid ==
    [invoiceNumber |-> invoiceNumber, customerId |-> customerId, date |-> now,
     status |-> "paid", subtotal |-> subtotal(lines),
     tax |-> tax(lines, applyGst), total |-> total(lines, applyGst),
     items |-> lines]

Draft ==
    [invoiceNumber |-> invoiceNumber, customerId |-> customerId, date |-> now,
     status |-> "unpaid", subtotal |-> subtotal(lines),
     tax |-> tax(lines, applyGst), total |-> total(lines, applyGst),
     items |-> lines]

\* The Save button (disabled while a save is pending), up to the await of
\* saveInvoice.mutateAsync(invoice).
handleSaveInvoice ==
    /\ page = "billing"
    /\ customerId # NoCustomer
    /\ lines # << >>
    /\ \A m \in mutations : m.kind # "saveInvoice"
    /\ StartMutation("saveInvoice", "invoices", Draft, "setItem")

(***************************************************************************)
(* CustomersPage: the aggregates of its useMemo                             *)
(***************************************************************************)
\* invoices.filter((i) => i.customerId === c.id)
forCustomerAnyone(invoices, c) == invoices

forCustomer(invoices, c) == SelectSeq(invoices, LAMBDA i : i.customerId = c.id)

\* .filter((i) => i.status === 'unpaid' || i.status === 'overdue')
pendingOfUnpaidOnly(invoices) == SelectSeq(invoices, LAMBDA i : i.status = "unpaid")

pendingOf(invoices) ==
    SelectSeq(invoices, LAMBDA i : i.status = "unpaid" \/ i.status = "overdue")

\* .reduce((sum, i) => sum + i.total, 0)
RECURSIVE reduceInvoices(_, _)
reduceInvoices(invoices, sum) ==
    IF invoices = << >> THEN sum
    ELSE reduceInvoices(Tail(invoices), sum + Head(invoices).total)

\* customers.map((c) => ({ ...c, totalSpent: total / 100,
\*                         pendingBalance: pending / 100 }))
customerStats(customers, invoices) ==
    [k \in DOMAIN customers |->
        LET c == customers[k]
            total_ == reduceInvoices(forCustomer(invoices, c), 0)
            pending == reduceInvoices(pendingOf(forCustomer(invoices, c)), 0)
        IN  [totalSpent |-> rupees(total_), pendingBalance |-> rupees(pending)] @@ c]

(***************************************************************************)
(* Time                                                                     *)
(***************************************************************************)
\* The clock advances in steps of two thirds of the staleness window; storage
\* operations are short against such a step, so none is in flight across one.
Quiescent ==
    /\ mutations = {}
    /\ \A c \in Classes : ~Fetching(c) /\ zombies[c] = << >>

Tick ==
    /\ Quiescent
    /\ now < MaxTicks * TickSeconds
    /\ now' = now + TickSeconds
    /\ UNCHANGED <<store, uuidCount, query, fetch, page, mutations, nWrites, written>>
    /\ UNCHANGED session
    /\ UNCHANGED dashboard
    /\ UNCHANGED aux

(***************************************************************************)
(* The data layer behind its cache                                          *)
(***************************************************************************)
Init ==
    /\ store = [c \in Classes |-> EmptyStore]
    /\ uuidCount = [c \in Classes |-> 0]
    /\ query = [c \in Classes |-> NoQuery]
    /\ fetch = [c \in Classes |-> IdleFetch]
    /\ page = "login"
    /\ mutations = {}
    /\ now = 0
    /\ nWrites = 0
    /\ written = [c \in Classes |-> EmptyStore]
    /\ lines = << >>
    /\ applyGst = TRUE
    /\ customerId = NoCustomer
    /\ lineCount = 0
    /\ nEdits = 0
    /\ dashboard = NoDashboard
    /\ zombies = [c \in Classes |-> << >>]
    /\ rejected = 0
    /\ raced = {}

\* What storage completes: one awaited operation of a queryFn or mutationFn.
StorageStep ==
    \/ \E c \in Classes : FetchLength(c)
    \/ \E c \in Classes : FetchSeedWrite(c)
    \/ \E c \in Classes : FetchIterate(c)
    \/ \E m \in mutations : UpsertGetItem(m)
    \/ \E m \in mutations : MutationSetItem(m)

\* The single agent that lets every operation finish before its next action
\* (routing to a page, submitting a write), with the clock running.
Next ==
    \/ Quiescent /\ \E p \in Pages : Navigate(p)
    \/ Quiescent /\ \E input \in AddProductInputs : addProduct(input)
    \/ Quiescent /\ \E product \in UpdateProductInputs : updateProduct(product)
    \/ Quiescent /\ \E input \in UpsertCustomerInputs : upsertCustomer(input)
    \/ Quiescent /\ \E input \in SaveInvoiceInputs : saveInvoice(input)
    \/ StorageStep
    \/ Tick

Spec == Init /\ [][Next]_vars

\* The agent that does not wait: user actions while operations are in flight.
NextRace ==
    \/ \E p \in Pages : Navigate(p)
    \/ \E input \in AddProductInputs : addProduct(input)
    \/ \E product \in UpdateProductInputs : updateProduct(product)
    \/ \E input \in UpsertCustomerInputs : upsertCustomer(input)
    \/ \E input \in SaveInvoiceInputs : saveInvoice(input)
    \/ StorageStep
    \/ \E c \in Classes : ZombieLength(c)

SpecRace == Init /\ [][NextRace]_vars

\* The billing counter: the application is opened on the billing page and an
\* invoice is composed and saved, edits and saves overlapping the storage
\* operations in flight.
NextBilling ==
    \/ page = "login" /\ Navigate("billing")
    \/ \E c \in Classes : FetchLength(c)
    \/ \E c \in Classes : FetchSeedWrite(c)
    \/ \E c \in Classes : FetchIterate(c)
    \/ \E m \in mutations : MutationSetItem(m)
    \/ \E productId \in PickIds : addProductToInvoice(productId)
    \/ \E i \in DOMAIN lines, qty \in QtyInputs : updateLineQty(lines[i].id, qty)
    \/ \E i \in DOMAIN lines, price \in PriceInputs :
          updateLinePrice(lines[i].id, price)
    \/ \E i \in DOMAIN lines : removeLine(lines[i].id)
    \/ setApplyGst(~applyGst)
    \/ \E id \in CustomerPickIds \cup {NoCustomer} : setCustomerId(id)
    \/ handleSaveInvoice

SpecBilling == Init /\ [][NextBilling]_vars

\* The billing counter over a storage whose writes may be rejected.
NextBillingFaulty ==
    \/ NextBilling
    \/ \E m \in mutations : MutationFails(m)

SpecBillingFaulty == Init /\ [][NextBillingFaulty]_vars

\* The single agent that routes and adjusts stocks, over a storage whose
\* operations may be rejected.
NextFaulty ==
    \/ Quiescent /\ \E p \in Pages : Navigate(p)
    \/ Quiescent /\ \E product \in UpdateProductInputs : updateProduct(product)
    \/ \E c \in Classes : FetchLength(c)
    \/ \E c \in Classes : FetchSeedWrite(c)
    \/ \E c \in Classes : FetchIterate(c)
    \/ \E m \in mutations : MutationSetItem(m)
    \/ \E c \in Classes : FetchFails(c)
    \/ \E m \in mutations : MutationFails(m)

SpecFaulty == Init /\ [][NextFaulty]_vars

\* The hooks as components may call them: every write of the data layer,
\* deleteProduct among them, issued while operations are in flight, over a
\* storage whose writes may be rejected. The pages routed to are those with a
\* form and the reports page (no query); the dashboard only reads.
NextHooks ==
    \/ \E p \in Pages \ {"dashboard"} : Navigate(p)
    \/ \E input \in AddProductInputs : addProduct(input)
    \/ \E product \in UpdateProductInputs : updateProduct(product)
    \/ \E input \in DeleteProductInputs : deleteProduct(input)
    \/ \E input \in UpsertCustomerInputs : upsertCustomer(input)
    \/ \E input \in SaveInvoiceInputs : saveInvoice(input)
    \/ StorageStep
    \/ \E m \in mutations : MutationRemoveItem(m)
    \/ \E m \in mutations : MutationFails(m)
    \/ \E c \in Classes : ZombieLength(c)

SpecHooks == Init /\ [][NextHooks]_vars

\* The application is opened in a browser whose product store holds the first
\* starter record alone (the others were deleted), and that record is deleted
\* by a component that lists it, more than once while the listing still
\* shows it, with pages routed meanwhile.
InitClear ==
    /\ store = [products |-> setItems(EmptyStore,
                                      SubSeq(SeedRecords("products", 0), 1, 1)),
                customers |-> setItems(EmptyStore, SeedRecords("customers", 0)),
                invoices |-> EmptyStore]
    /\ uuidCount = [products |-> Len(ProductSeed), customers |-> Len(CustomerSeed),
                    invoices |-> 0]
    /\ query = [c \in Classes |-> NoQuery]
    /\ fetch = [c \in Classes |-> IdleFetch]
    /\ page = "login"
    /\ mutations = {}
    /\ now = 0
    /\ nWrites = 0
    /\ written = [c \in Classes |-> EmptyStore]
    /\ lines = << >>
    /\ applyGst = TRUE
    /\ customerId = NoCustomer
    /\ lineCount = 0
    /\ nEdits = 0
    /\ dashboard = NoDashboard
    /\ zombies = [c \in Classes |-> << >>]
    /\ rejected = 0
    /\ raced = {}

NextClear ==
    \/ \E p \in Pages : Navigate(p)
    \/ \E input \in DeleteProductInputs : deleteProduct(input)
    \/ \E c \in Classes : FetchLength(c)
    \/ \E c \in Classes : FetchSeedWrite(c)
    \/ \E c \in Classes : FetchIterate(c)
    \/ \E m \in mutations : MutationRemoveItem(m)
    \/ \E c \in Classes : ZombieLength(c)
    \/ \E c \in Classes : ZombieSeedWrite(c)

SpecClear == InitClear /\ [][NextClear]_vars

(***************************************************************************)
(* The dashboard or the customers page opened over stored invoices          *)
(***************************************************************************)
SecondsPerHour == 60 * 60

\* The clock when the application is opened: 1971-03-10T12:00Z.
clockAtStart == 433 * SecondsPerDay + 12 * SecondsPerHour

\* The type InvoiceStatus.
InvoiceStatuses == {"draft", "unpaid", "paid", "overdue", "cancelled"}

\* An invoice as saveInvoice stores it, of one line worth its total, made out
\* to one of the seeded customers in turn.
StoredInvoice(id, date, status, amount) ==
    [id |-> id,
     invoiceNumber |-> [prefix |-> "ZAVINO", today |-> dayKey(date), seq |-> id],
     customerId |-> (id % Len(CustomerSeed)) + 1, date |-> date,
     status |-> status, subtotal |-> amount, tax |-> 0, total |-> amount,
     items |-> << [id |-> id, productId |-> 1, name |-> "Verona Leather Sofa",
                   quantity |-> 1, price |-> amount, total |-> amount] >>]

\* Stored lists that mix the statuses, of invoices of today (01:00Z) and of
\* yesterday (23:00Z), worth 10000 or 20000.
MixedDates == {433 * SecondsPerDay + SecondsPerHour, 432 * SecondsPerDay + 23 * SecondsPerHour}
MixedTotals == {10000, 20000}

MixedStores ==
    UNION { { [k \in 1..n |-> StoredInvoice(k, d[k], st[k], t[k])] :
                d \in [1..n -> MixedDates], st \in [1..n -> InvoiceStatuses],
                t \in [1..n -> MixedTotals] } :
            n \in 0..MaxMixed }

\* Stored lists that spread over the months: any of ten invoices dated, in key
\* order, 1971-03-10, 1970-08-15, 1971-01-20, 1970-12-31, 1971-01-01,
\* 1970-09-10, 1971-02-14, 1970-10-05, 1971-03-10 (the same instant as the
\* first) and 1970-11-11, unpaid and paid in turn.
SpreadDays == <<433, 226, 384, 364, 365, 252, 409, 277, 433, 314>>

SpreadInvoice(k) ==
    StoredInvoice(k, SpreadDays[k] * SecondsPerDay + SecondsPerHour,
                  IF k % 2 = 0 THEN "paid" ELSE "unpaid", 1000 * k)

SpreadStores ==
    { [k \in S |-> SpreadInvoice(k)] : S \in SUBSET (1..Len(SpreadDays)) }

\* The application is opened in a browser whose stores hold the seeds and the
\* invoices of earlier sessions.
InitAgg ==
    /\ store \in { [products |-> setItems(EmptyStore, SeedRecords("products", 0)),
                    customers |-> setItems(EmptyStore, SeedRecords("customers", 0)),
                    invoices |-> s] : s \in MixedStores \cup SpreadStores }
    /\ uuidCount = [products |-> Len(ProductSeed), customers |-> Len(CustomerSeed),
                    invoices |-> Len(SpreadDays)]
    /\ query = [c \in Classes |-> NoQuery]
    /\ fetch = [c \in Classes |-> IdleFetch]
    /\ page = "login"
    /\ mutations = {}
    /\ now = clockAtStart
    /\ nWrites = 0
    /\ written = [c \in Classes |-> EmptyStore]
    /\ lines = << >>
    /\ applyGst = TRUE
    /\ customerId = NoCustomer
    /\ lineCount = 0
    /\ nEdits = 0
    /\ dashboard = NoDashboard
    /\ zombies = [c \in Classes |-> << >>]
    /\ rejected = 0
    /\ raced = {}

NextAgg ==
    \/ page = "login" /\ Navigate("dashboard")
    \/ page = "login" /\ Navigate("customers")
    \/ \E c \in Classes : FetchLength(c)
    \/ \E c \in Classes : FetchIterate(c)

SpecAgg == InitAgg /\ [][NextAgg]_vars

(***************************************************************************)
(* Properties                                                               *)
(***************************************************************************)
\* The records of a listing that carry identifier k.
WithKey(listing, k) == {i \in DOMAIN listing : listing[i].id = k}

\* A listing shows the completed writes w: each written key once, with the
\* value of its last write.
Shows(listing, w) ==
    \A k \in DOMAIN w :
        /\ Cardinality(WithKey(listing, k)) = 1
        /\ \A i \in WithKey(listing, k) : listing[i] = w[k]

\* A mutation of class c lands in this step: its setItem completes.
Lands(c) ==
    \E m \in mutations : m.cls = c /\ m.pc = "setItem" /\ m \notin mutations'

\* C1: a product listing read after the invalidation (the cache entry holds
\* data and is not flagged) has, for every identifier written by addProduct or
\* updateProduct, exactly one record, equal to the last write to it.
C1_LastWriteWins ==
    (query["products"].status = "success" /\ ~query["products"].isInvalidated)
        => Shows(query["products"].data, written["products"])

\* Identifier 1 was written twice (added over the seed, then its stock
\* adjusted) and the listing read afterwards is in the cache.
C1_Witness ==
    /\ query["products"].status = "success"
    /\ ~query["products"].isInvalidated
    /\ 1 \in DOMAIN written["products"]
    /\ written["products"][1].name = NewProduct.name
    /\ written["products"][1].stockQty = 0

\* C2: every write that lands flags the cache entry of its class, whatever the
\* age of the entry; a flagged entry is stale, a read request of it (routing
\* to a page that uses it) has a run of the queryFn in flight, at once when the
\* entry is active, and the flag goes only when such a run stores a listing
\* read from the store.
C2_WriteInvalidates ==
    [][\A c \in Classes :
          /\ Lands(c) =>
                /\ query'[c].isInvalidated
                /\ IsStale(c)'
                /\ Active(c) => Fetching(c)'
          /\ (query[c].isInvalidated /\ page' # page /\ c \in Queries(page'))
                => Fetching(c)'
          /\ (query[c].isInvalidated /\ ~query'[c].isInvalidated)
                => /\ fetch[c].pc = "iterate"
                   /\ query'[c].data = getAll(store[c])]_vars

\* A cache entry with data younger than the staleness window is flagged and
\* being read again.
C2_Witness ==
    \E c \in Classes :
        /\ query[c].status = "success"
        /\ query[c].isInvalidated
        /\ now - query[c].dataUpdatedAt < staleTime
        /\ Fetching(c)
        /\ DOMAIN written[c] # {}

\* C3 as claimed: once a write call has returned, a read of the class (the
\* listing a mounted component gets from its query) shows the write.
C3_ReadsShowCompletedWrites ==
    \A c \in Classes :
        (Active(c) /\ query[c].status = "success")
            => Shows(query[c].data, written[c])

\* C4: a read request (routing to a page that uses class c) of an entry that
\* is not flagged and younger than 60 seconds starts no run of the queryFn and
\* leaves the entry and the store alone; of an entry that is absent or older
\* it starts a run; and a run that ends puts the store's listing and the
\* current time in the entry.
Younger(c) ==
    /\ query[c].status = "success"
    /\ ~query[c].isInvalidated
    /\ now - query[c].dataUpdatedAt < 60

Older(c) ==
    \/ query[c].status = "pending"
    \/ now - query[c].dataUpdatedAt > 60

C4_StalenessWindow ==
    [][\A c \in Classes :
          /\ (page' # page /\ c \in Queries(page') /\ Younger(c))
                => /\ ~Fetching(c)'
                   /\ query'[c] = query[c]
                   /\ store' = store
          /\ (page' # page /\ c \in Queries(page') /\ Older(c))
                => Fetching(c)'
          /\ (Fetching(c) /\ ~Fetching(c)')
                => /\ query'[c].status = "success"
                   /\ query'[c].data = getAll(store[c])
                   /\ query'[c].dataUpdatedAt = now
                   /\ ~query'[c].isInvalidated]_vars

\* With no write at all: on the billing page at 80 s the products entry, read
\* at 0 s, has been read again, and the customers entry, read at 40 s, has not.
C4_Witness ==
    /\ nWrites = 0
    /\ page = "billing"
    /\ Quiescent
    /\ now = 2 * TickSeconds
    /\ query["products"].dataUpdatedAt = 2 * TickSeconds
    /\ query["customers"].status = "success"
    /\ query["customers"].dataUpdatedAt = TickSeconds

\* C5: as long as no write to the class has been issued, every listing read of
\* products returns the five starter records and of customers the three, under
\* the identifiers of the first read, and the store holds these and no more.
IsSeedListing(c, listing) ==
    /\ Len(listing) = Len(SeedOf(c))
    /\ \A i \in DOMAIN listing :
          /\ listing[i].id = i
          /\ \A f \in DOMAIN SeedOf(c)[i] : listing[i][f] = SeedOf(c)[i][f]

Untouched(c) ==
    /\ DOMAIN written[c] = {}
    /\ \A m \in mutations : m.cls # c

C5_SeedOnce ==
    /\ Len(ProductSeed) = 5
    /\ Len(CustomerSeed) = 3
    /\ \A c \in {"products", "customers"} :
          (Untouched(c) /\ query[c].status = "success")
              => /\ IsSeedListing(c, query[c].data)
                 /\ length(store[c]) = Len(SeedOf(c))
                 /\ uuidCount[c] = Len(SeedOf(c))

\* Both listings have been read a second time (at 80 s, after the first read
\* at 0 s or 40 s went stale) with no write issued.
C5_Witness ==
    /\ nWrites = 0
    /\ Quiescent
    /\ \A c \in {"products", "customers"} :
          /\ query[c].status = "success"
          /\ query[c].dataUpdatedAt = 2 * TickSeconds
          /\ Len(query[c].data) = Len(SeedOf(c))

\* The invoices of the store, and the lines of the session and of the store.
PersistedInvoices == {store["invoices"][k] : k \in DOMAIN store["invoices"]}

AllLines ==
    {lines[i] : i \in DOMAIN lines}
        \cup UNION {{inv.items[i] : i \in DOMAIN inv.items} : inv \in PersistedInvoices}

\* C6: in every state of the editing session no two lines share a productId,
\* and adding a product that has a line adds 1 to the quantity of that line,
\* recomputes its total and appends nothing; adding one that has none appends
\* a line of quantity 1 at the price of the product.
C6_NoDuplicateLines ==
    [][/\ \A i, j \in DOMAIN lines' :
              lines'[i].productId = lines'[j].productId => i = j
       /\ \A p \in PickIds :
            addProductToInvoice(p) =>
                IF \E i \in DOMAIN lines : lines[i].productId = p
                THEN /\ Len(lines') = Len(lines)
                     /\ \A i \in DOMAIN lines :
                          IF lines[i].productId = p
                          THEN /\ lines'[i].quantity = lines[i].quantity + 1
                               /\ lines'[i].price = lines[i].price
                               /\ lines'[i].id = lines[i].id
                          ELSE lines'[i] = lines[i]
                ELSE /\ Len(lines') = Len(lines) + 1
                     /\ SubSeq(lines', 1, Len(lines)) = lines
                     /\ lines'[Len(lines')].productId = p
                     /\ lines'[Len(lines')].quantity = 1]_vars

\* The same product was added twice (no quantity typed is 2): one line of
\* quantity 2.
C6_Witness ==
    /\ Len(lines) = 1
    /\ lines[1].productId = 1
    /\ lines[1].quantity = 2
    /\ nEdits = 2

\* C7 as claimed: typing a negative quantity into a line leaves the session
\* as it was.
C7_NegativeQuantityIgnored ==
    [][\A i \in DOMAIN lines, qty \in QtyInputs :
          (qty < 0 /\ updateLineQty(lines[i].id, qty))
              => UNCHANGED <<lines, applyGst, customerId>>]_vars

\* The sum of the totals of a list of lines, from its last line down.
RECURSIVE SumOfTotals(_)
SumOfTotals(items) ==
    IF Len(items) = 0 THEN 0
    ELSE items[Len(items)].total + SumOfTotals(SubSeq(items, 1, Len(items) - 1))

\* C8: in every state of the editing session the subtotal rendered is the sum
\* of the line totals and the total is subtotal + tax, and every invoice in
\* the store has subtotal = sum of its items' totals and total = subtotal + tax.
C8_TotalsAddUp ==
    /\ subtotal(lines) = SumOfTotals(lines)
    /\ total(lines, applyGst) = subtotal(lines) + tax(lines, applyGst)
    /\ \A inv \in PersistedInvoices :
          /\ inv.subtotal = SumOfTotals(inv.items)
          /\ inv.total = inv.subtotal + inv.tax

\* An invoice of two lines is in the store, and the session has gone on to
\* a next invoice with a line of its own.
C8_Witness ==
    /\ \E inv \in PersistedInvoices : Len(inv.items) = 2 /\ inv.tax > 0
    /\ Len(lines) = 1
    /\ subtotal(lines) > 0

\* C9 as claimed: every line of the session and of every invoice in the store
\* has total = round(quantity * price).
C9_LineTotalIsRoundedProduct ==
    \A l \in AllLines : l.total = l.quantity * l.price

\* n / d (d > 0) rounded to the nearest integer, a half going away from zero.
RoundHalfAwayFromZero(n, d) ==
    IF n >= 0 THEN (2 * n + d) \div (2 * d)
    ELSE 0 - ((2 * (0 - n) + d) \div (2 * d))

\* C10: tax is subtotal * 18 / 100 rounded half away from zero with the GST
\* toggle on and 0 with it off, total is subtotal + tax, in the session and in
\* every invoice saved from it; and one line of quantity 2 of the product
\* priced 89999 has total 179998, tax 32400 and invoice total 212398.
C10_TaxRounding ==
    /\ tax(lines, TRUE) = RoundHalfAwayFromZero(SumOfTotals(lines) * 18, 100)
    /\ tax(lines, FALSE) = 0
    /\ total(lines, applyGst) = SumOfTotals(lines) + tax(lines, applyGst)
    /\ \A inv \in PersistedInvoices :
          /\ inv.tax \in {0, RoundHalfAwayFromZero(inv.subtotal * 18, 100)}
          /\ inv.total = inv.subtotal + inv.tax
    /\ (/\ Len(lines) = 1
        /\ lines[1].quantity = 2
        /\ lines[1].price = 89999
        /\ applyGst)
          => /\ lines[1].total = 179998
             /\ tax(lines, applyGst) = 32400
             /\ total(lines, applyGst) = 212398

\* The product priced 89999 was added twice with GST on, and an invoice whose
\* tax is an exact half (25 * 0.18 = 4.5) rounded up to 5 is in the store.
C10_Witness ==
    /\ Len(lines) = 1
    /\ lines[1].productId = 1
    /\ lines[1].quantity = 2
    /\ lines[1].price = 89999
    /\ applyGst
    /\ \E inv \in PersistedInvoices : inv.subtotal = 25 /\ inv.tax = 5

\* C11 as claimed: every line of the session and of every invoice in the store
\* has quantity >= 0 and price >= 0, whatever is typed into the inputs.
C11_QuantityAndPriceNonNegative ==
    \A l \in AllLines : l.quantity >= 0 /\ l.price >= 0

\* The mutationFn of upsertCustomer m ends in this step: its setItem lands and
\* it returns m.value.
UpsertLands(m) ==
    /\ m \in mutations
    /\ m.kind = "upsertCustomer"
    /\ m.pc = "setItem"
    /\ m \notin mutations'

\* The input names a stored customer / names one and repeats its field values.
NamesStored(input) == HasId(input) /\ input.id \in DOMAIN store["customers"]

RepeatsStored(input) ==
    /\ NamesStored(input)
    /\ \A f \in DOMAIN input : input[f] = store["customers"][input.id][f]

\* C12: upsertCustomer with the identifier of a stored customer and field
\* values identical to the stored ones leaves the customer store as it was
\* (same records, same identifier, same values) and returns that record.
C12_UpsertIdempotent ==
    [][\A m \in mutations :
          (UpsertLands(m) /\ RepeatsStored(m.input))
              => /\ store'["customers"] = store["customers"]
                 /\ m.value = store["customers"][m.input.id]]_vars

\* The form of the first customer was submitted unchanged, as the only write.
C12_Witness ==
    /\ nWrites = 1
    /\ mutations = {}
    /\ 1 \in DOMAIN written["customers"]
    /\ written["customers"][1] = WithId(CustomerSeed[1], 1)
    /\ store["customers"][1] = WithId(CustomerSeed[1], 1)
    /\ Cardinality(DOMAIN store["customers"]) = Len(CustomerSeed)

\* C13: upsertCustomer with the identifier of a stored customer stores that
\* record with every field of the patch taken from the patch and every other
\* field kept, under the given identifier; with no identifier it stores a new
\* record under an identifier the store did not have; the record returned is
\* the record stored.
C13_UpsertMerges ==
    [][\A m \in mutations :
          UpsertLands(m) =>
             /\ store'["customers"][m.key] = m.value
             /\ m.value.id = m.key
             /\ \A f \in DOMAIN m.input \ {"id"} : m.value[f] = m.input[f]
             /\ \A k \in DOMAIN store'["customers"] \ {m.key} :
                   /\ k \in DOMAIN store["customers"]
                   /\ store'["customers"][k] = store["customers"][k]
             /\ NamesStored(m.input) =>
                   /\ m.key = m.input.id
                   /\ \A f \in CustomerFields \ (DOMAIN m.input \cup {"id"}) :
                         m.value[f] = store["customers"][m.key][f]
                   /\ DOMAIN store'["customers"] = DOMAIN store["customers"]
             /\ ~HasId(m.input) =>
                   /\ m.key \notin DOMAIN store["customers"]
                   /\ DOMAIN store'["customers"]
                        = DOMAIN store["customers"] \cup {m.key}]_vars

\* The first customer was renamed by a patch of the name alone and kept its
\* phone and address, and a customer was created under a fourth identifier.
C13_Witness ==
    /\ mutations = {}
    /\ DOMAIN written["customers"] = {1, Len(CustomerSeed) + 1}
    /\ written["customers"][1].name = "Meera Nair"
    /\ written["customers"][1].phone = CustomerSeed[1].phone
    /\ written["customers"][1].address = CustomerSeed[1].address
    /\ store["customers"][Len(CustomerSeed) + 1].name = "Meera Nair"

\* C14 as claimed: upsertCustomer with an identifier the customer store does
\* not hold leaves the store unchanged.
C14_UnknownIdIsNoOp ==
    [][\A m \in mutations :
          (UpsertLands(m) /\ HasId(m.input) /\ ~NamesStored(m.input))
              => store'["customers"] = store["customers"]]_vars

\* C15: in each class every stored record is held under the key that is its
\* own id, so no two stored records of a class share an identifier, after any
\* sequence of seeding, addProduct, updateProduct, upsertCustomer and
\* saveInvoice.
C15_KeyIsId ==
    \A c \in Classes :
        /\ \A k \in DOMAIN store[c] :
              "id" \in DOMAIN store[c][k] /\ store[c][k].id = k
        /\ \A j, k \in DOMAIN store[c] :
              store[c][j].id = store[c][k].id => j = k

\* The customer store holds the three seeds, a customer created under a
\* generated identifier and one created under an identifier the caller gave.
C15_Witness ==
    /\ mutations = {}
    /\ DOMAIN store["customers"] = (1..(Len(CustomerSeed) + 1)) \cup {UnknownId}
    /\ DOMAIN written["customers"] = {Len(CustomerSeed) + 1, UnknownId}

\* A save of the billing flow ends in this step.
SaveLands(m) ==
    /\ m \in mutations
    /\ m.kind = "saveInvoice"
    /\ m.pc = "setItem"
    /\ m \notin mutations'

\* C16: no step changes or removes a stored invoice, and every save of the
\* billing flow writes under an identifier the store did not hold, so the
\* number of invoices grows by exactly one with each save that lands.
C16_InvoicesAreNeverRewritten ==
    [][/\ \A k \in DOMAIN store["invoices"] :
             /\ k \in DOMAIN store'["invoices"]
             /\ store'["invoices"][k] = store["invoices"][k]
       /\ \A m \in mutations :
             SaveLands(m) =>
                /\ m.key \notin DOMAIN store["invoices"]
                /\ store'["invoices"][m.key] = m.value
                /\ Cardinality(DOMAIN store'["invoices"])
                     = Cardinality(DOMAIN store["invoices"]) + 1
       /\ (\A m \in mutations : ~SaveLands(m))
             => store'["invoices"] = store["invoices"]]_vars

\* Two invoices have been saved, one after the other.
C16_Witness ==
    /\ mutations = {}
    /\ Cardinality(DOMAIN store["invoices"]) = 2
    /\ \A k \in DOMAIN store["invoices"] : store["invoices"][k].items # << >>

\* The invoices the dashboard has: the listing of the cache, none before the
\* first read ends.
Invoices == query["invoices"].data

\* The sum of the totals of the invoices at the positions I of a listing.
RECURSIVE SumTotalOver(_, _)
SumTotalOver(listing, I) ==
    IF I = {} THEN 0
    ELSE LET i == CHOOSE i \in I : TRUE
         IN  listing[i].total + SumTotalOver(listing, I \ {i})

\* C17: pending receivables is the sum of total over exactly the invoices
\* whose status is unpaid or overdue, whatever their date; draft, paid and
\* cancelled invoices add nothing (totals 10000 unpaid and 20000 paid give
\* 10000).
C17_PendingReceivables ==
    dashboard.mounted =>
        /\ dashboard.pendingSum
             = SumTotalOver(Invoices, {i \in DOMAIN Invoices :
                                         Invoices[i].status \in {"unpaid", "overdue"}})
        /\ dashboard.pendingAmount.whole * 100 + dashboard.pendingAmount.hundredths
             = dashboard.pendingSum
        /\ (/\ Len(Invoices) = 2
            /\ Invoices[1].status = "unpaid" /\ Invoices[1].total = 10000
            /\ Invoices[2].status = "paid" /\ Invoices[2].total = 20000)
              => dashboard.pendingSum = 10000

\* The dashboard shows an overdue invoice of yesterday and a paid one of today:
\* only the overdue one is pending.
C17_Witness ==
    /\ dashboard.mounted
    /\ query["invoices"].status = "success"
    /\ Len(Invoices) = 2
    /\ Invoices[1].status = "overdue" /\ Invoices[1].total = 10000
    /\ Invoices[1].date < now - SecondsPerDay \div 2
    /\ Invoices[2].status = "paid" /\ Invoices[2].total = 20000
    /\ dashboard.pendingSum = 10000

\* The months of 1970 and 1971 by the day their first day is, and the month
\* (1 for 1970-01, 13 for 1971-01) a date of these years falls in.
MonthStarts ==
    <<0, 31, 59, 90, 120, 151, 181, 212, 243, 273, 304, 334,
      365, 396, 424, 455, 485, 516, 546, 577, 608, 638, 669, 699>>

MonthOf(date) ==
    Cardinality({n \in DOMAIN MonthStarts : MonthStarts[n] * 86400 <= date})

MonthsOf(listing) == {MonthOf(listing[i].date) : i \in DOMAIN listing}

\* The label MM/YY of such a month.
LabelOf(n) == <<((n - 1) % 12) + 1, (1970 + (n - 1) \div 12) % 100>>

\* C18: the monthly sales series has one entry for each year-month that has an
\* invoice, worth the sum of total of all invoices of the month whatever their
\* status, in ascending order of month, and only the 6 most recent of these
\* months.
C18_MonthlySeries ==
    dashboard.mounted =>
        LET series == dashboard.monthlySales
            months == MonthsOf(Invoices)
            shown == [i \in DOMAIN series |->
                        CHOOSE n \in months : LabelOf(n) = series[i].month]
        IN  /\ Len(series) = (IF Cardinality(months) < 6 THEN Cardinality(months) ELSE 6)
            /\ \A i \in DOMAIN series : \E n \in months : LabelOf(n) = series[i].month
            /\ \A i \in DOMAIN series :
                  series[i].total.whole * 100 + series[i].total.hundredths
                    = SumTotalOver(Invoices,
                          {k \in DOMAIN Invoices : MonthOf(Invoices[k].date) = shown[i]})
            /\ \A i, j \in DOMAIN series : i < j => shown[i] < shown[j]
            /\ \A n \in months :
                  (\A i \in DOMAIN series : shown[i] # n)
                      => \A i \in DOMAIN series : n < shown[i]

\* Ten invoices of eight months are shown as six entries, from 10/70 to 03/71,
\* the last worth the two invoices of 1971-03.
C18_Witness ==
    /\ dashboard.mounted
    /\ Len(Invoices) = 10
    /\ Len(dashboard.monthlySales) = 6
    /\ dashboard.monthlySales[1].month = <<10, 70>>
    /\ dashboard.monthlySales[6].month = <<3, 71>>
    /\ dashboard.monthlySales[6].total = [whole |-> 100, hundredths |-> 0]

\* C19: today's sales is the sum of total over exactly the invoices whose date
\* is on the current calendar day (UTC, as toISOString gives it) and whose
\* status is paid.
C19_TodaySales ==
    dashboard.mounted =>
        LET midnight == now - (now % 86400)
        IN  /\ dashboard.todaySalesSum
                 = SumTotalOver(Invoices,
                       {i \in DOMAIN Invoices :
                          /\ Invoices[i].status = "paid"
                          /\ midnight <= Invoices[i].date
                          /\ Invoices[i].date < midnight + 86400})
            /\ dashboard.todaySales.whole * 100 + dashboard.todaySales.hundredths
                 = dashboard.todaySalesSum

\* A paid invoice of today, a paid one of yesterday 23:00: today's sales is the
\* first alone.
C19_Witness ==
    /\ dashboard.mounted
    /\ Len(Invoices) = 2
    /\ Invoices[1].status = "paid" /\ Invoices[1].total = 10000
    /\ Invoices[1].date > now - SecondsPerDay \div 2
    /\ Invoices[2].status = "paid" /\ Invoices[2].total = 20000
    /\ Invoices[2].date < now - SecondsPerDay \div 2
    /\ dashboard.todaySalesSum = 10000

\* C20: recent invoices is a list of min(5, n) of the n invoices, each once,
\* in descending order of date, and no invoice left out is dated later than
\* one in the list.
C20_RecentInvoices ==
    dashboard.mounted =>
        LET recent == dashboard.recentInvoices
        IN  /\ Len(recent) = (IF Len(Invoices) < 5 THEN Len(Invoices) ELSE 5)
            /\ \A i \in DOMAIN recent : \E k \in DOMAIN Invoices : Invoices[k] = recent[i]
            /\ \A i, j \in DOMAIN recent : i # j => recent[i].id # recent[j].id
            /\ \A i, j \in DOMAIN recent : i < j => recent[i].date >= recent[j].date
            /\ \A k \in DOMAIN Invoices :
                  (\A i \in DOMAIN recent : recent[i].id # Invoices[k].id)
                      => \A i \in DOMAIN recent : Invoices[k].date <= recent[i].date

\* Of ten invoices five are listed, led by the two of the same instant, the
\* later stored of them first.
C20_Witness ==
    /\ dashboard.mounted
    /\ Len(Invoices) = 10
    /\ Len(dashboard.recentInvoices) = 5
    /\ dashboard.recentInvoices[1].id = 9
    /\ dashboard.recentInvoices[2].id = 1
    /\ dashboard.recentInvoices[5].date < dashboard.recentInvoices[4].date

\* The customers and the statistics the customers page has.
Customers == query["customers"].data

CustomerStats == customerStats(Customers, Invoices)

Paise(amount) == amount.whole * 100 + amount.hundredths

\* C21: the customers page shows exactly one entry per listed customer, in
\* the listing's order; its total spent is the sum of total over all invoices
\* with that customerId, whatever their status, its pending balance the same
\* sum over the unpaid and overdue ones, so that the pending balance never
\* exceeds the total spent.
C21_CustomerStats ==
    page = "customers" =>
        /\ DOMAIN CustomerStats = DOMAIN Customers
        /\ \A k \in DOMAIN Customers :
             LET mine == {i \in DOMAIN Invoices :
                            Invoices[i].customerId = Customers[k].id}
             IN  /\ CustomerStats[k].id = Customers[k].id
                 /\ CustomerStats[k].name = Customers[k].name
                 /\ Paise(CustomerStats[k].totalSpent) = SumTotalOver(Invoices, mine)
                 /\ Paise(CustomerStats[k].pendingBalance)
                       = SumTotalOver(Invoices,
                            {i \in mine : Invoices[i].status \in {"unpaid", "overdue"}})
                 /\ Paise(CustomerStats[k].pendingBalance)
                       <= Paise(CustomerStats[k].totalSpent)

\* The customers page lists three customers over invoices of two of them: one
\* has a paid and an unpaid invoice (pending below total spent), one has none.
C21_Witness ==
    /\ page = "customers"
    /\ Len(Customers) = 3
    /\ \E k \in DOMAIN Customers :
         /\ Paise(CustomerStats[k].pendingBalance) > 0
         /\ Paise(CustomerStats[k].pendingBalance) < Paise(CustomerStats[k].totalSpent)
    /\ \E k \in DOMAIN Customers : Paise(CustomerStats[k].totalSpent) = 0
    /\ \E i, j \in DOMAIN Invoices : Invoices[i].customerId # Invoices[j].customerId

\* The sum of a field of the entries of the customers page.
RECURSIVE SumOfStats(_, _)
SumOfStats(stats, field) ==
    IF stats = << >> THEN 0
    ELSE Paise(Head(stats)[field]) + SumOfStats(Tail(stats), field)

\* C29: computed from the same loaded listings, the pending balances of the
\* customers page add up to the pending receivables of the dashboard, and its
\* totals spent to the sum of total over all invoices; every invoice is made
\* out to a listed customer.
C29_PagesAgree ==
    (/\ page = "customers"
     /\ query["customers"].status = "success"
     /\ query["invoices"].status = "success")
        => /\ SumOfStats(CustomerStats, "pendingBalance") = pendingSum(Invoices)
           /\ SumOfStats(CustomerStats, "totalSpent")
                = SumTotalOver(Invoices, DOMAIN Invoices)

\* The customers page has both listings, with invoices of two customers, an
\* overdue one and a paid one among them.
C29_Witness ==
    /\ page = "customers"
    /\ query["customers"].status = "success"
    /\ query["invoices"].status = "success"
    /\ \E i, j \in DOMAIN Invoices :
         /\ Invoices[i].customerId # Invoices[j].customerId
         /\ Invoices[i].status = "overdue"
         /\ Invoices[j].status = "paid"
    /\ pendingSum(Invoices) > 0
    /\ \A i \in DOMAIN Invoices : Listed("customers", Invoices[i].customerId)

\* C27: every stored invoice has status unpaid: the billing save flow stores
\* its invoices as unpaid and no operation changes a stored invoice.
C27_StoredInvoicesAreUnpaid ==
    \A k \in DOMAIN store["invoices"] : store["invoices"][k].status = "unpaid"

\* Two invoices composed on the billing page have been saved.
C27_Witness ==
    /\ mutations = {}
    /\ Cardinality(DOMAIN store["invoices"]) = 2
    /\ \A k \in DOMAIN store["invoices"] :
         /\ store["invoices"][k].items # << >>
         /\ store["invoices"][k].customerId # NoCustomer

\* C28: the invoice numbers of the stored invoices saved on one day are
\* pairwise distinct, also when a save is issued before the invoice listing
\* has been read again after the save before it.
C28_InvoiceNumbersDistinct ==
    \A j, k \in DOMAIN store["invoices"] :
        (j # k /\ dayKey(store["invoices"][j].date) = dayKey(store["invoices"][k].date))
            => store["invoices"][j].invoiceNumber # store["invoices"][k].invoiceNumber

\* C24: seeding never runs for invoices: a read of the invoice listing never
\* counts the store or writes starter records, and as long as no saveInvoice
\* has completed the invoice store is empty and the listing is the empty list.
C24_NoInvoiceSeeding ==
    /\ fetch["invoices"].pc \in {"idle", "iterate"}
    /\ fetch["invoices"].pending = << >>
    /\ written["invoices"] = EmptyStore
         => /\ store["invoices"] = EmptyStore
            /\ query["invoices"].data = << >>

\* The invoice listing has been read, empty, next to seeded products and
\* customers, while a save is in flight.
C24_Witness ==
    /\ query["invoices"].status = "success"
    /\ query["invoices"].data = << >>
    /\ store["invoices"] = EmptyStore
    /\ store["products"] # EmptyStore
    /\ store["customers"] # EmptyStore
    /\ \E m \in mutations : m.kind = "saveInvoice"

SaveFails(m) ==
    /\ m \in mutations
    /\ m.kind = "saveInvoice"
    /\ m \notin mutations'
    /\ m.key \notin DOMAIN store'["invoices"]

\* C22: a save whose write is rejected reaches its caller as a rejection and
\* leaves the store, the cache (no invalidation, no read started) and the
\* editing session (lines, customer, GST toggle) as they were, so that the
\* draft can be saved again; a save whose write is done clears the lines and
\* the customer.
C22_FailedSaveKeepsDraft ==
    [][\A m \in mutations :
          /\ SaveFails(m) =>
                /\ rejected' = rejected + 1
                /\ store' = store
                /\ query' = query
                /\ fetch' = fetch
                /\ lines' = lines
                /\ customerId' = customerId
                /\ applyGst' = applyGst
                /\ Draft' = [Draft EXCEPT !.date = now']
          /\ (SaveLands(m) /\ ~SaveFails(m)) =>
                /\ rejected' = rejected
                /\ store'["invoices"][m.key] = m.value
                /\ lines' = << >>
                /\ customerId' = NoCustomer
                /\ query'["invoices"].isInvalidated]_vars

\* A save has been rejected: no invoice is stored, the invoice listing is not
\* flagged, and the session still holds the lines and the customer of the
\* draft, with no save in flight.
C22_Witness ==
    /\ rejected = 1
    /\ mutations = {}
    /\ store["invoices"] = EmptyStore
    /\ query["invoices"].status = "success"
    /\ ~query["invoices"].isInvalidated
    /\ ~Fetching("invoices")
    /\ lines # << >>
    /\ customerId # NoCustomer

\* C23: a storage operation that fails is surfaced at once and not retried:
\* a read request of a listing makes one attempt (no run of its queryFn is in
\* flight after one has failed), and a rejected write starts no other.
C23_NoAutomaticRetry ==
    /\ [](\A c \in Classes : Fetching(c) => fetch[c].failureCount = 0)
    /\ [][rejected' # rejected => mutations' \subseteq mutations]_vars

\* A write of the data layer ends in this step, done or rejected.
WriteEnds(m) ==
    /\ m \in mutations
    /\ m \notin mutations'
    /\ Cardinality(mutations') < Cardinality(mutations)

\* The runs of the read of class c, the cancelled ones among them, that have
\* counted an empty store and are to write their seed.
SeedingRuns(c) ==
    (IF fetch[c].pc = "seed" THEN {fetch[c].pending} ELSE {})
        \cup {zombies[c][i].pending :
                 i \in {j \in DOMAIN zombies[c] : zombies[c][j].pc = "seed"}}

\* C30: a write (addProduct, updateProduct, deleteProduct, upsertCustomer,
\* saveInvoice) that is done changes the store of its class at its key alone
\* and leaves the stores and cache entries of the other classes as they were;
\* a write that is rejected changes no store and no cache entry; every other
\* step changes a store only as the seeding of a product or customer read
\* that counted an empty store, which adds its starter records, and a cache
\* entry only as the read of its class that ends.
C30_WritesStayInTheirClass ==
    [][/\ \A m \in mutations :
            WriteEnds(m) =>
               /\ \A c \in Classes \ {m.cls} :
                     /\ store'[c] = store[c]
                     /\ query'[c] = query[c]
                     /\ fetch'[c] = fetch[c]
               /\ \A k \in DOMAIN store[m.cls] \ {m.key} :
                     /\ k \in DOMAIN store'[m.cls]
                     /\ store'[m.cls][k] = store[m.cls][k]
               /\ DOMAIN store'[m.cls] \subseteq DOMAIN store[m.cls] \cup {m.key}
               /\ rejected' # rejected => (store' = store /\ query' = query /\ fetch' = fetch)
       /\ (\A m \in mutations : ~WriteEnds(m)) =>
            \A c \in Classes :
               /\ store'[c] # store[c] =>
                     /\ Seeded(c)
                     /\ \E pending \in SeedingRuns(c) :
                           /\ Len(pending) = Len(SeedOf(c))
                           /\ store'[c] = setItems(store[c], pending)
                           /\ \A i \in DOMAIN pending :
                                 pending[i].id \notin DOMAIN store[c]
               /\ query'[c] # query[c] =>
                     /\ fetch[c].pc = "iterate"
                     /\ store' = store]_vars

\* A product has been deleted and another write rejected: the product store
\* has lost the product, the customers are the seed, no invoice is stored, and
\* the customer and invoice listings are not flagged.
C30_Witness ==
    /\ rejected = 1
    /\ nWrites = 2
    /\ mutations = {}
    /\ 1 \notin DOMAIN store["products"]
    /\ Cardinality(DOMAIN store["products"]) = Len(ProductSeed) - 1
    /\ query["products"].isInvalidated \/ 1 \notin {query["products"].data[i].id :
                                                       i \in DOMAIN query["products"].data}
    /\ Cardinality(DOMAIN store["customers"]) = Len(CustomerSeed)
    /\ store["invoices"] = EmptyStore
    /\ ~query["customers"].isInvalidated
    /\ ~query["invoices"].isInvalidated

\* The runs of the read of class c in flight that may still write.
NoRunPending(c) == ~Fetching(c) /\ zombies[c] = << >>

\* C25: the count and the seed writes of seedProductsIfEmpty are not one
\* step. Every run that has counted an empty store writes its own five starter
\* records under fresh identifiers; when two runs have both counted zero
\* before either wrote, the store ends with (at least) ten products; without
\* such an overlap the store never holds more than the five.
C25_SeedRace ==
    /\ [](Cardinality(DOMAIN store["products"]) > Len(ProductSeed)
            => "seeds" \in raced)
    /\ []((/\ "seeds" \in raced
           /\ NoRunPending("products")
           /\ mutations = {})
            => Cardinality(DOMAIN store["products"]) >= 2 * Len(ProductSeed))
    /\ [][(mutations' = mutations /\ store'["products"] # store["products"])
            => /\ SeedingRuns("products") # {}
               /\ Cardinality(DOMAIN store'["products"])
                     = Cardinality(DOMAIN store["products"]) + Len(ProductSeed)]_vars

\* Two runs of the product read have overlapped on the emptied store: the
\* store and the listing read afterwards hold ten products, each starter
\* record twice under different identifiers.
C25_Witness ==
    /\ "seeds" \in raced
    /\ NoRunPending("products")
    /\ Cardinality(DOMAIN store["products"]) = 2 * Len(ProductSeed)
    /\ query["products"].status = "success"
    /\ Len(query["products"].data) = 2 * Len(ProductSeed)
    /\ \A i \in DOMAIN ProductSeed :
         Cardinality({k \in DOMAIN store["products"] :
                        store["products"][k].sku = ProductSeed[i].sku}) = 2

====
